---- MODULE Spec2Model ----
(***************************************************************************)
(* Model of the Zapwiser stock screener (src/zapwiser-stock-screener.py):  *)
(* the indicator functions, fetch_enhanced_stock_data, the criteria and    *)
(* QVM scoring functions, the run_enhanced_scan callback and the QVM       *)
(* ranking view.                                                           *)
(*                                                                         *)
(* Numbers.  Python floats are modelled as exact rationals; a value is a   *)
(* record [k, n, d] with k = "num" (the rational n/d, d > 0, in lowest     *)
(* terms), "nan" (pandas NaN: an undefined rolling value) or "none"        *)
(* (Python None).  Floating-point rounding error is not modelled.          *)
(***************************************************************************)
EXTENDS Integers, Sequences, FiniteSets, TLC

(***************************************************************************)
(* Exact arithmetic                                                        *)
(***************************************************************************)
Abs(x) == IF x < 0 THEN -x ELSE x

RECURSIVE GCD(_, _)
GCD(a, b) == IF b = 0 THEN a ELSE GCD(b, a % b)

Num(n, d) ==
    LET s == IF d < 0 THEN -1 ELSE 1
        g == GCD(Abs(n), Abs(d))
    IN  [k |-> "num", n |-> (s * n) \div g, d |-> (s * d) \div g]

I(n)  == [k |-> "num", n |-> n, d |-> 1]
None  == [k |-> "none", n |-> 0, d |-> 1]
NaN   == [k |-> "nan", n |-> 0, d |-> 1]

IsNum(a)  == a.k = "num"
IsNone(a) == a.k = "none"

RAdd(a, b) == Num(a.n * b.d + b.n * a.d, a.d * b.d)
RSub(a, b) == Num(a.n * b.d - b.n * a.d, a.d * b.d)
RMul(a, b) == Num(a.n * b.n, a.d * b.d)
RDiv(a, b) == Num(a.n * b.d, a.d * b.n)
RLt(a, b)  == a.n * b.d < b.n * a.d
RLe(a, b)  == a.n * b.d <= b.n * a.d
RGt(a, b)  == RLt(b, a)
RAbs(a)    == [a EXCEPT !.n = Abs(a.n)]

\* Python's min(a, b) and max(a, b): the first argument wins a tie.
PyMin(a, b) == IF RLt(b, a) THEN b ELSE a
PyMax(a, b) == IF RGt(b, a) THEN b ELSE a

\* Python's int(x): truncation towards zero.
PyInt(a) == IF a.n >= 0 THEN I(a.n \div a.d) ELSE I(-((-a.n) \div a.d))

\* Python's truthiness of an optional number: None and 0 are falsy.
Truthy(a) == IsNum(a) /\ a.n # 0

\* Python's round(x, 1): nearest multiple of 0.1, an exact tie to the even one.
PyRound1(a) ==
    LET t  == 10 * a.n
        fl == t \div a.d
        r2 == 2 * (t - fl * a.d)
    IN  IF r2 < a.d THEN Num(fl, 10)
        ELSE IF r2 > a.d THEN Num(fl + 1, 10)
        ELSE IF fl % 2 = 0 THEN Num(fl, 10) ELSE Num(fl + 1, 10)

(***************************************************************************)
(* Price history.  A bar is [close, high, low, volume] (integers); df is   *)
(* the sequence of daily bars the provider returns, oldest first.          *)
(***************************************************************************)
RECURSIVE SumRows(_, _, _)
\* Sum of column[lo..hi].
SumRows(column, lo, hi) ==
    IF lo > hi THEN 0
    ELSE IF lo = hi THEN column[lo]
    ELSE SumRows(column, lo, (lo + hi) \div 2) + SumRows(column, (lo + hi) \div 2 + 1, hi)

\* The columns df['Close'], df['High'], df['Low'], df['Volume'].
Close(df)  == [i \in 1..Len(df) |-> df[i].close]
High(df)   == [i \in 1..Len(df) |-> df[i].high]
Low(df)    == [i \in 1..Len(df) |-> df[i].low]
Volume(df) == [i \in 1..Len(df) |-> df[i].volume]

\* column.rolling(window).mean() at row i: NaN until the window is full.
RollingMean(column, window, i) ==
    IF i < window THEN NaN
    ELSE Num(SumRows(column, i - window + 1, i), window)

\* calculate_sma(data, window), the value at row i.
calculate_sma(data, window, i) == RollingMean(data, window, i)

\* delta = data.diff(); delta.where(delta > 0, 0): the first row's delta is
\* NaN, which fails the comparison and is replaced by 0.
GainColumn(data) ==
    [i \in 1..Len(data) |->
        IF i = 1 THEN 0
        ELSE IF data[i] - data[i-1] > 0 THEN data[i] - data[i-1] ELSE 0]

\* -delta.where(delta < 0, 0)
LossColumn(data) ==
    [i \in 1..Len(data) |->
        IF i = 1 THEN 0
        ELSE IF data[i] - data[i-1] < 0 THEN data[i-1] - data[i] ELSE 0]

\* calculate_rsi(data, window), the value at row i.  gain / loss divides
\* pandas series: x/0 is inf for x > 0 (and 100 - 100/(1+inf) = 100), 0/0 is
\* NaN.
calculate_rsi(data, window, i) ==
    LET gain == RollingMean(GainColumn(data), window, i)
        loss == RollingMean(LossColumn(data), window, i)
    IN  IF ~IsNum(gain) \/ ~IsNum(loss) THEN NaN
        ELSE IF loss.n = 0 THEN (IF gain.n = 0 THEN NaN ELSE I(100))
        ELSE RSub(I(100), RDiv(I(100), RAdd(I(1), RDiv(gain, loss))))

Max2(a, b) == IF a >= b THEN a ELSE b

\* tr = max(high - low, |high - close.shift()|, |low - close.shift()|) per
\* row; DataFrame.max(axis=1) skips NaN, so the first row's true range is
\* high - low.
TrueRange(high, low, close) ==
    [i \in 1..Len(close) |->
        IF i = 1 THEN high[i] - low[i]
        ELSE Max2(high[i] - low[i],
                  Max2(Abs(high[i] - close[i-1]), Abs(low[i] - close[i-1])))]

\* calculate_atr(high, low, close, window), the value at row i.
calculate_atr(high, low, close, window, i) ==
    RollingMean(TrueRange(high, low, close), window, i)

\* The indicator columns fetch_enhanced_stock_data adds to df, at row i.
SMA50(df, i)  == calculate_sma(Close(df), 50, i)
SMA100(df, i) == calculate_sma(Close(df), 100, i)
SMA200(df, i) == calculate_sma(Close(df), 200, i)
RSI(df, i)    == calculate_rsi(Close(df), 14, i)
ATR(df, i)    == calculate_atr(High(df), Low(df), Close(df), 14, i)
Vol20(df, i)  == RollingMean(Volume(df), 20, i)

\* Row i survives df.dropna(subset=[SMA50, SMA100, SMA200, ATR, RSI, Vol20]).
RowValid(df, i) ==
    /\ IsNum(SMA200(df, i))
    /\ IsNum(SMA100(df, i))
    /\ IsNum(SMA50(df, i))
    /\ IsNum(ATR(df, i))
    /\ IsNum(RSI(df, i))
    /\ IsNum(Vol20(df, i))

\* The row numbers of df_valid, in order.
DfValid(df) ==
    LET keep(i) == RowValid(df, i)
    IN  SelectSeq([i \in 1..Len(df) |-> i], keep)

MinBars == 200

\* The performance figure over `back` rows of df_valid (iloc[-back]), in percent.
Perf(df, valid, back) ==
    IF Len(valid) >= back
    THEN RMul(RSub(RDiv(I(df[valid[Len(valid)]].close),
                        I(df[valid[Len(valid) - back + 1]].close)), I(1)), I(100))
    ELSE None

\* Technicals without the length check and without dropna: the snapshot is
\* taken from the last row of df whatever is defined there.
Technicals_unvalidated(df) ==
    IF Len(df) = 0 THEN <<>>
    ELSE LET valid  == [i \in 1..Len(df) |-> i]
             latest == Len(df)
         IN <<[ price      |-> I(df[latest].close),
                sma50      |-> SMA50(df, latest),
                sma100     |-> SMA100(df, latest),
                sma200     |-> SMA200(df, latest),
                rsi        |-> RSI(df, latest),
                atr        |-> ATR(df, latest),
                volume     |-> PyInt(I(df[latest].volume)),
                avg_volume |-> PyInt(Vol20(df, latest)),
                perf_1m    |-> Perf(df, valid, 22),
                perf_3m    |-> Perf(df, valid, 66),
                perf_6m    |-> Perf(df, valid, 132) ]>>

\* Technicals with the length check but without dropna: the snapshot is taken
\* from the last row of df.
Technicals_last_row(df) ==
    IF Len(df) = 0 \/ Len(df) < MinBars THEN <<>>
    ELSE Technicals_unvalidated(df)

\* The part of fetch_enhanced_stock_data that depends on the price history
\* only: <<>> when it returns None before reading stock.info, else the
\* technical fields of the snapshot, taken from the last row of df_valid.
Technicals(df) ==
    IF Len(df) = 0 \/ Len(df) < MinBars THEN <<>>
    ELSE LET valid == DfValid(df)
         IN  IF Len(valid) = 0 THEN <<>>
             ELSE LET latest == valid[Len(valid)]
                  IN <<[ price      |-> I(df[latest].close),
                         sma50      |-> SMA50(df, latest),
                         sma100     |-> SMA100(df, latest),
                         sma200     |-> SMA200(df, latest),
                         rsi        |-> RSI(df, latest),
                         atr        |-> ATR(df, latest),
                         volume     |-> PyInt(I(df[latest].volume)),
                         avg_volume |-> PyInt(Vol20(df, latest)),
                         perf_1m    |-> Perf(df, valid, 22),
                         perf_3m    |-> Perf(df, valid, 66),
                         perf_6m    |-> Perf(df, valid, 132) ]>>

\* x = info.get(key); if x: x = x * 100
Percent(x) == IF Truthy(x) THEN RMul(x, I(100)) ELSE x

\* The fundamental fields of the snapshot, from stock.info.
Fundamentals(info) ==
    [ pe_ratio         |-> info.trailingPE,
      pb_ratio         |-> info.priceToBook,
      ps_ratio         |-> info.priceToSalesTrailing12Months,
      dividend_yield   |-> IF Truthy(info.dividendYield)
                           THEN RMul(info.dividendYield, I(100))
                           ELSE I(0),
      roe              |-> Percent(info.returnOnEquity),
      operating_margin |-> Percent(info.operatingMargins),
      revenue_growth   |-> Percent(info.revenueGrowth),
      market_cap       |-> info.marketCap ]

\* fetch_enhanced_stock_data(ticker) against the provider's answer
\* [err, tech, info_err, info], tech being Technicals of the history it
\* returns: the result is <<>> for None and <<snapshot>> otherwise.  Any
\* exception inside is caught and gives None.
fetch_enhanced_stock_data(ticker, resp) ==
    IF resp.err THEN <<>>
    ELSE IF resp.tech = <<>> THEN <<>>
    ELSE IF resp.info_err THEN <<>>
    ELSE << [ticker |-> ticker] @@ resp.tech[1] @@ Fundamentals(resp.info) >>

(***************************************************************************)
(* Swing criteria                                                          *)
(***************************************************************************)
\* data['atr'] / data['price'] divides two Python floats: a zero price raises
\* ZeroDivisionError out of check_swing_criteria.
check_swing_criteria_raises(data) == data.price.n = 0

\* check_swing_criteria with the trend test price > sma50 > sma200.
check_swing_criteria_sma200(data, volume_multiplier, atr_threshold) ==
    [ trend      |-> RGt(data.price, data.sma50) /\ RGt(data.sma50, data.sma200),
      volume     |-> RGt(data.volume, RMul(data.avg_volume, volume_multiplier)),
      volatility |-> RGt(RDiv(data.atr, data.price), atr_threshold),
      momentum   |-> RLe(I(30), data.rsi) /\ RLe(data.rsi, I(70)) ]

\* check_swing_criteria with the volatility test atr / price >= atr_threshold.
check_swing_criteria_ge(data, volume_multiplier, atr_threshold) ==
    [ trend      |-> RGt(data.price, data.sma50) /\ RGt(data.sma50, data.sma100),
      volume     |-> RGt(data.volume, RMul(data.avg_volume, volume_multiplier)),
      volatility |-> RLe(atr_threshold, RDiv(data.atr, data.price)),
      momentum   |-> RLe(I(30), data.rsi) /\ RLe(data.rsi, I(70)) ]

\* check_swing_criteria with the momentum test 30 < rsi < 70.
check_swing_criteria_strict(data, volume_multiplier, atr_threshold) ==
    [ trend      |-> RGt(data.price, data.sma50) /\ RGt(data.sma50, data.sma100),
      volume     |-> RGt(data.volume, RMul(data.avg_volume, volume_multiplier)),
      volatility |-> RGt(RDiv(data.atr, data.price), atr_threshold),
      momentum   |-> RLt(I(30), data.rsi) /\ RLt(data.rsi, I(70)) ]

\* check_swing_criteria(data, volume_multiplier, atr_threshold) for a snapshot
\* (the `if not data` branch is never taken for a snapshot dict).
check_swing_criteria(data, volume_multiplier, atr_threshold) ==
    [ trend      |-> RGt(data.price, data.sma50) /\ RGt(data.sma50, data.sma100),
      volume     |-> RGt(data.volume, RMul(data.avg_volume, volume_multiplier)),
      volatility |-> RGt(RDiv(data.atr, data.price), atr_threshold),
      momentum   |-> RLe(I(30), data.rsi) /\ RLe(data.rsi, I(70)) ]

\* The snapshot after check_swing_criteria has run: the function only reads
\* data[...] and builds a new dict of checks.
check_swing_criteria_data(data, volume_multiplier, atr_threshold) == data

(***************************************************************************)
(* QVM scores                                                              *)
(***************************************************************************)
\* min(100, max(0, x))
Clamp(x) == PyMin(I(100), PyMax(I(0), x))

\* One optional contributor of a sub-score: [on, score].
Contributor(on, score) == [on |-> on, score |-> IF on THEN score ELSE I(0)]

RECURSIVE ScoreSum(_)
ScoreSum(cs) == IF cs = <<>> THEN I(0)
                ELSE IF cs[1].on THEN RAdd(cs[1].score, ScoreSum(Tail(cs)))
                ELSE ScoreSum(Tail(cs))

RECURSIVE ScoreCount(_)
ScoreCount(cs) == IF cs = <<>> THEN 0
                  ELSE (IF cs[1].on THEN 1 ELSE 0) + ScoreCount(Tail(cs))

\* quality_final dividing by the three contributors, present or not.
quality_final_div3(data) ==
    LET cs == << Contributor(~IsNone(data.roe),
                             Clamp(RMul(RDiv(data.roe, I(30)), I(100)))),
                 Contributor(~IsNone(data.operating_margin),
                             Clamp(RMul(RDiv(data.operating_margin, I(30)), I(100)))),
                 Contributor(~IsNone(data.revenue_growth),
                             Clamp(RMul(RDiv(data.revenue_growth, I(20)), I(100)))) >>
    IN  IF ScoreCount(cs) > 0 THEN RDiv(ScoreSum(cs), I(3)) ELSE I(50)

\* quality_final scoring ROE against 20 instead of 30.
quality_final_roe20(data) ==
    LET cs == << Contributor(~IsNone(data.roe),
                             Clamp(RMul(RDiv(data.roe, I(20)), I(100)))),
                 Contributor(~IsNone(data.operating_margin),
                             Clamp(RMul(RDiv(data.operating_margin, I(30)), I(100)))),
                 Contributor(~IsNone(data.revenue_growth),
                             Clamp(RMul(RDiv(data.revenue_growth, I(20)), I(100)))) >>
    IN  IF ScoreCount(cs) > 0 THEN RDiv(ScoreSum(cs), I(ScoreCount(cs))) ELSE I(50)

\* quality_score / quality_count if quality_count > 0 else 50
quality_final(data) ==
    LET cs == << Contributor(~IsNone(data.roe),
                             Clamp(RMul(RDiv(data.roe, I(30)), I(100)))),
                 Contributor(~IsNone(data.operating_margin),
                             Clamp(RMul(RDiv(data.operating_margin, I(30)), I(100)))),
                 Contributor(~IsNone(data.revenue_growth),
                             Clamp(RMul(RDiv(data.revenue_growth, I(20)), I(100)))) >>
    IN  IF ScoreCount(cs) > 0 THEN RDiv(ScoreSum(cs), I(ScoreCount(cs))) ELSE I(50)

\* value_score / value_count if value_count > 0 else 50; the dividend-yield
\* term is min(100, yield * 20), with no lower clamp.
value_final(data) ==
    LET pe_on == ~IsNone(data.pe_ratio) /\ data.pe_ratio.n > 0
        pb_on == ~IsNone(data.pb_ratio) /\ data.pb_ratio.n > 0
        cs == << Contributor(pe_on, Clamp(RMul(RDiv(I(20), data.pe_ratio), I(50)))),
                 Contributor(pb_on, Clamp(RMul(RDiv(I(3), data.pb_ratio), I(50)))),
                 Contributor(~IsNone(data.dividend_yield),
                             PyMin(I(100), RMul(data.dividend_yield, I(20)))) >>
    IN  IF ScoreCount(cs) > 0 THEN RDiv(ScoreSum(cs), I(ScoreCount(cs))) ELSE I(50)

\* momentum_weights = {'1m': 0.2, '3m': 0.3, '6m': 0.5}; the RSI term weighs 0.2.
W1m  == Num(2, 10)
W3m  == Num(3, 10)
W6m  == Num(5, 10)
WRsi == Num(2, 10)

\* One optional weighted term of the momentum score.
Term(on, score, weight) ==
    [on |-> on, score |-> IF on THEN RMul(score, weight) ELSE I(0),
     weight |-> IF on THEN weight ELSE I(0)]

\* momentum_final dividing by the sum of all four weights, used or not.
momentum_final_allweights(data) ==
    LET t1 == Term(~IsNone(data.perf_1m),
                   Clamp(RAdd(I(50), RMul(data.perf_1m, I(2)))), W1m)
        t3 == Term(~IsNone(data.perf_3m),
                   Clamp(RAdd(I(50), RMul(data.perf_3m, Num(3, 2)))), W3m)
        t6 == Term(~IsNone(data.perf_6m),
                   Clamp(RAdd(I(50), data.perf_6m)), W6m)
        tr == Term(~IsNone(data.rsi),
                   PyMax(I(0), RSub(I(100), RMul(RAbs(RSub(data.rsi, I(50))), I(2)))),
                   WRsi)
        momentum_score == RAdd(RAdd(t1.score, t3.score), RAdd(t6.score, tr.score))
    IN  RDiv(momentum_score, RAdd(RAdd(W1m, W3m), RAdd(W6m, WRsi)))

\* momentum_score / momentum_count if momentum_count > 0 else 50
momentum_final(data) ==
    LET t1 == Term(~IsNone(data.perf_1m),
                   Clamp(RAdd(I(50), RMul(data.perf_1m, I(2)))), W1m)
        t3 == Term(~IsNone(data.perf_3m),
                   Clamp(RAdd(I(50), RMul(data.perf_3m, Num(3, 2)))), W3m)
        t6 == Term(~IsNone(data.perf_6m),
                   Clamp(RAdd(I(50), data.perf_6m)), W6m)
        tr == Term(~IsNone(data.rsi),
                   PyMax(I(0), RSub(I(100), RMul(RAbs(RSub(data.rsi, I(50))), I(2)))),
                   WRsi)
        momentum_score == RAdd(RAdd(t1.score, t3.score), RAdd(t6.score, tr.score))
        momentum_count == RAdd(RAdd(t1.weight, t3.weight), RAdd(t6.weight, tr.weight))
    IN  IF momentum_count.n > 0 THEN RDiv(momentum_score, momentum_count) ELSE I(50)

\* calculate_qvm_scores(data) for a snapshot.
\* calculate_qvm_scores taking the composite from the rounded sub-scores.
calculate_qvm_scores_from_rounded(data) ==
    LET quality  == PyRound1(quality_final(data))
        value    == PyRound1(value_final(data))
        momentum == PyRound1(momentum_final(data))
    IN  [ quality_score  |-> quality,
          value_score    |-> value,
          momentum_score |-> momentum,
          qvm_score      |-> PyRound1(RDiv(RAdd(RAdd(quality, value), momentum), I(3))) ]

calculate_qvm_scores(data) ==
    LET qvm_score == RDiv(RAdd(RAdd(quality_final(data), value_final(data)),
                               momentum_final(data)), I(3))
    IN  [ quality_score  |-> PyRound1(quality_final(data)),
          value_score    |-> PyRound1(value_final(data)),
          momentum_score |-> PyRound1(momentum_final(data)),
          qvm_score      |-> PyRound1(qvm_score) ]

\* calculate_qvm_scores writing the defaults it reads back into the snapshot.
calculate_qvm_scores_data_setdefault(data) ==
    [data EXCEPT !.roe = IF IsNone(@) THEN I(0) ELSE @]

\* The snapshot after calculate_qvm_scores has run: the function only reads
\* data.get(...) and returns a new dict of scores.
calculate_qvm_scores_data(data) == data

(***************************************************************************)
(* The data provider (yfinance), an input of the program.  A response is   *)
(* named by a small record r = [kind, h, f]: kind "error" (history raises: *)
(* network failure, unknown symbol, malformed data), "info_error"          *)
(* (stock.info raises) or "ok"; h are the parameters of the price history  *)
(* and f the fundamentals.                                                 *)
(* A history of h.n bars closes at h.base + h.amp on odd rows and at       *)
(* h.base on even rows, h.old higher on its first h.oldN rows, except that *)
(* its last Len(h.tail) bars close at h.tail.                              *)
(***************************************************************************)
History(h) ==
    [i \in 1..h.n |->
        LET k == i - (h.n - Len(h.tail))
            c == IF k >= 1 THEN h.tail[k]
                 ELSE h.base + (i % 2) * h.amp + (IF i <= h.oldN THEN h.old ELSE 0)
        IN  [close  |-> c,
             high   |-> c + h.spread,
             low    |-> IF c > 0 THEN c - 1 ELSE 0,
             volume |-> IF i = h.n THEN h.lastVol ELSE h.vol + (i % 3)]]


RECURSIVE Flat(_, _)
\* A sequence of n closes, all equal to c.
Flat(n, c) == IF n = 0 THEN <<>> ELSE <<c>> \o Flat(n - 1, c)

Hist(n, base, amp, tail, lastVol) ==
    [n |-> n, base |-> base, amp |-> amp, tail |-> tail, spread |-> 2,
     vol |-> 1000, lastVol |-> lastVol, oldN |-> 0, old |-> 0]

\* The history h with its first oldN closes raised by old.
WithOld(h, oldN, old) == [h EXCEPT !.oldN = oldN, !.old = old]

Info(pe, pb, dy, roe, om, rg) ==
    [trailingPE |-> pe, priceToBook |-> pb, priceToSalesTrailing12Months |-> None,
     dividendYield |-> dy, returnOnEquity |-> roe, operatingMargins |-> om,
     revenueGrowth |-> rg, marketCap |-> None]

\* The provider has no fundamental attribute for the ticker.
NoInfo == Info(None, None, None, None, None, None)

Resp(kind, h, f) == [kind |-> kind, h |-> h, f |-> f]

(***************************************************************************)
(* Inputs                                                                  *)
(***************************************************************************)
Tickers == {"AAPL", "MSFT", "TSLA"}

\* The longest watchlist considered.
MaxWatch == 3

\* The longest price history considered.
LongBars == 340

\* A zigzag history of exactly MinBars bars whose last bar closes at `last`.
H200(last) == Hist(200, 100, 2, <<last>>, 2500)

\* 199 zigzag bars, then 16 bars closing at 103: the RSI of the last two
\* bars is 0/0.
HStale == Hist(215, 100, 2, Flat(16, 103), 9000)

\* 186 zigzag bars ending at 100, one bar closing at c1, then 13 bars closing
\* at c2: the 14 deltas of the last bar are c1 - 100, c2 - c1 and twelve zeros.
HRsi(c1, c2) == Hist(200, 100, 2, <<c1>> \o Flat(13, c2), 2500)

\* Zigzag 101/100 with high = close + 1 and low = close - 1: every true range
\* is 2, and the last bar closes at 100.
HAtr2 == [Hist(200, 100, 1, <<>>, 2500) EXCEPT !.spread = 1]

\* The last 20 volumes average 1039.35, and the last volume is 1559.
HVolume == [Hist(200, 100, 2, <<>>, 1559) EXCEPT !.vol = 1011]

Pct(x) == Num(x, 100)

Responses ==
    { Resp("ok", Hist(199, 100, 2, <<>>, 2500), NoInfo),
      Resp("ok", H200(0), NoInfo),
      Resp("ok", H200(110), NoInfo),
      Resp("ok", H200(100), Info(I(10), None, Pct(2), Pct(30), None, None)),
      Resp("ok", H200(110), Info(I(40), None, None, Pct(15), Pct(15), Pct(10))) }

RichHistories ==
    { Hist(n, 100, 2, <<>>, 2500) : n \in {0, 1, 199, 200, 201, 230, 270, LongBars} }
    \cup { Hist(n, 100, 0, <<>>, 2500) : n \in {200, 230} }
    \cup { Hist(n, 100, 2, <<last>>, 1000) :
                n \in {200, LongBars}, last \in {0, 90, 102, 110, 130} }
    \cup { WithOld(H200(last), oldN, 50) : last \in {100, 110}, oldN \in {100, 120} }
    \cup { HStale, Hist(214, 100, 2, Flat(15, 103), 9000) }
    \cup { HRsi(107, 104), HRsi(93, 96), HRsi(108, 105), HRsi(92, 95) }
    \cup { HAtr2, HVolume }

Optional(S) == {None} \cup S

RichInfos ==
    { Info(pe, pb, dy, roe, om, rg) :
        pe  \in Optional({I(-5), I(0), I(10), I(40)}),
        pb  \in Optional({Num(3, 2)}),
        dy  \in Optional({I(0), Pct(2), Pct(8), Pct(-5)}),
        roe \in Optional({I(0), Pct(15), Pct(30), Pct(-10)}),
        om  \in Optional({Pct(15)}),
        rg  \in Optional({Pct(60)}) }

RichResponses ==
    { Resp("error", H200(100), NoInfo), Resp("info_error", H200(100), NoInfo) }
    \cup { Resp("ok", h, NoInfo) : h \in RichHistories }
    \cup { Resp("ok", H200(110), f) : f \in RichInfos }

AllHistories == { r.h : r \in Responses \cup RichResponses }

\* The technical part of the snapshot for every history, computed once.
TechnicalsOf == [h \in AllHistories |-> Technicals(History(h))]

\* What the provider answers to a request named r.
Provider(r) ==
    [err |-> r.kind = "error", tech |-> TechnicalsOf[r.h],
     info_err |-> r.kind = "info_error", info |-> r.f]

VolMults   == {Num(3, 2)}
AtrThreshs == {I(2), I(3)}
ViewModes  == {"cards", "qvm"}

(***************************************************************************)
(* State                                                                   *)
(***************************************************************************)
VARIABLES
    market,     \* the provider's response for each ticker
    watchlist,  \* the watchlist-store: a sequence of tickers
    pc,         \* "idle", or "loop" while run_enhanced_scan iterates
    args,       \* the arguments of the running (or last) run_enhanced_scan
    idx,        \* the position of the loop in args.watchlist
    all_data,   \* the list run_enhanced_scan builds
    output,     \* what the last run_enhanced_scan returned: [kind, items]
    callback,   \* how the last manage_watchlist call ended
    prices,     \* the price series an indicator function is called on
    indicators  \* the last indicator call: [fn, window, result]

vars == <<market, watchlist, pc, args, idx, all_data, output, callback, prices,
          indicators>>

RECURSIVE Insert_ascending(_, _)
\* Insert without reverse=True: the list is ordered by non-decreasing score.
Insert_ascending(sorted, x) ==
    IF sorted = <<>> THEN <<x>>
    ELSE IF RGt(sorted[1].data.qvm_score, x.data.qvm_score) THEN <<x>> \o sorted
    ELSE <<sorted[1]>> \o Insert_ascending(Tail(sorted), x)

RECURSIVE Insert(_, _)
\* Insert item x into a list ordered by non-increasing qvm_score, behind the
\* items whose score is not smaller.
Insert(sorted, x) ==
    IF sorted = <<>> THEN <<x>>
    ELSE IF RLt(sorted[1].data.qvm_score, x.data.qvm_score) THEN <<x>> \o sorted
    ELSE <<sorted[1]>> \o Insert(Tail(sorted), x)

RECURSIVE SortedByQvm(_)
\* sorted(all_data, key=lambda x: x['data']['qvm_score'], reverse=True):
\* Python's sort is stable, also with reverse=True.
SortedByQvm(items) ==
    IF items = <<>> THEN <<>>
    ELSE Insert(SortedByQvm(SubSeq(items, 1, Len(items) - 1)), items[Len(items)])

\* create_qvm_ranking_view(all_data): one ranking card per item of sorted_data.
create_qvm_ranking_view(items) ==
    IF SortedByQvm(items) = <<>> THEN [kind |-> "no_data", items |-> <<>>]
    ELSE [kind |-> "ranking", items |-> SortedByQvm(items)]

\* create_enhanced_cards_view(all_data): one card per item, in list order.
create_enhanced_cards_view(items) == [kind |-> "cards", items |-> items]

NoArgs == [watchlist |-> <<>>, vol_mult |-> I(0), atr_thresh |-> I(0), view_mode |-> "cards"]

\* All duplicate-free watchlists of at most MaxWatch tickers.
Watchlists ==
    UNION { { w \in [1..n -> Tickers] : \A i, j \in 1..n : w[i] = w[j] => i = j }
            : n \in 0..MaxWatch }

\* No indicator function has been called.
NoIndicators == [fn |-> "none", window |-> 0, result |-> <<>>]

InitScan ==
    /\ pc = "idle"
    /\ args = NoArgs
    /\ idx = 0
    /\ all_data = <<>>
    /\ output = [kind |-> "none", items |-> <<>>]

\* The response for the tickers that are on no watchlist.
Quiet == Resp("error", H200(100), NoInfo)

InWatchlist(w, t) == \E i \in 1..Len(w) : w[i] = t

\* Any watchlist whose tickers have responses in Responses, or one ticker
\* whose response is drawn from RichResponses.
Init ==
    /\ InitScan
    /\ callback = "none"
    /\ prices = <<>>
    /\ indicators = NoIndicators
    /\ \/ /\ watchlist \in Watchlists
          /\ market \in [Tickers -> Responses \cup {Quiet}]
          /\ \A t \in Tickers : InWatchlist(watchlist, t) \/ market[t] = Quiet
       \/ /\ \E r \in RichResponses :
                market = [t \in Tickers |-> r]
          /\ watchlist = <<"AAPL">>

\* run_enhanced_scan up to the loop: a click on the scan button.
StartScan(n_clicks, vol_mult, atr_thresh, view_mode) ==
    /\ pc = "idle"
    /\ IF n_clicks = 0 \/ watchlist = <<>>
       THEN /\ output' = [kind |-> "blank", items |-> <<>>]
            /\ UNCHANGED <<pc, args, idx, all_data>>
       ELSE /\ pc' = "loop"
            /\ args' = [watchlist |-> watchlist, vol_mult |-> vol_mult,
                        atr_thresh |-> atr_thresh, view_mode |-> view_mode]
            /\ idx' = 1
            /\ all_data' = <<>>
            /\ UNCHANGED output
    /\ UNCHANGED <<callback, prices, indicators>>
    /\ UNCHANGED <<market, watchlist>>

\* ScanTicker putting the new entry in front of all_data instead of behind it.
ScanTicker_prepend ==
    /\ pc = "loop"
    /\ idx <= Len(args.watchlist)
    /\ LET ticker == args.watchlist[idx]
           data   == fetch_enhanced_stock_data(ticker, Provider(market[ticker]))
       IN  IF data = <<>>
           THEN /\ idx' = idx + 1
                /\ UNCHANGED <<pc, all_data, output>>
           ELSE IF check_swing_criteria_raises(data[1])
           THEN /\ pc' = "idle"
                /\ output' = [kind |-> "error", items |-> <<>>]
                /\ UNCHANGED <<idx, all_data>>
           ELSE LET swing_checks == check_swing_criteria(data[1], args.vol_mult,
                                        RDiv(args.atr_thresh, I(100)))
                    qvm_scores   == calculate_qvm_scores(data[1])
                IN  /\ all_data' = <<[data |-> data[1] @@ qvm_scores,
                                      checks |-> swing_checks]>> \o all_data
                    /\ idx' = idx + 1
                    /\ UNCHANGED <<pc, output>>
    /\ UNCHANGED <<callback, prices, indicators>>
    /\ UNCHANGED <<market, watchlist, args>>

\* One iteration of `for ticker in watchlist`.  An exception raised by
\* check_swing_criteria is not caught: the callback ends with an error.
ScanTicker ==
    /\ pc = "loop"
    /\ idx <= Len(args.watchlist)
    /\ LET ticker == args.watchlist[idx]
           data   == fetch_enhanced_stock_data(ticker, Provider(market[ticker]))
       IN  IF data = <<>>
           THEN /\ idx' = idx + 1
                /\ UNCHANGED <<pc, all_data, output>>
           ELSE IF check_swing_criteria_raises(data[1])
           THEN /\ pc' = "idle"
                /\ output' = [kind |-> "error", items |-> <<>>]
                /\ UNCHANGED <<idx, all_data>>
           ELSE LET swing_checks == check_swing_criteria(data[1], args.vol_mult,
                                        RDiv(args.atr_thresh, I(100)))
                    checked      == check_swing_criteria_data(data[1], args.vol_mult,
                                        RDiv(args.atr_thresh, I(100)))
                    qvm_scores   == calculate_qvm_scores(checked)
                    scored       == calculate_qvm_scores_data(checked)
                IN  /\ all_data' = Append(all_data,
                            [data |-> qvm_scores @@ scored, checks |-> swing_checks])
                    /\ idx' = idx + 1
                    /\ UNCHANGED <<pc, output>>
    /\ UNCHANGED <<callback, prices, indicators>>
    /\ UNCHANGED <<market, watchlist, args>>

\* FinishScan without the "if not all_data" test of run_enhanced_scan.
FinishScan_unguarded ==
    /\ pc = "loop"
    /\ idx > Len(args.watchlist)
    /\ pc' = "idle"
    /\ output' = IF args.view_mode = "qvm" THEN create_qvm_ranking_view(all_data)
                 ELSE create_enhanced_cards_view(all_data)
    /\ UNCHANGED <<callback, prices, indicators>>
    /\ UNCHANGED <<market, watchlist, args, idx, all_data>>

\* run_enhanced_scan after the loop.
FinishScan ==
    /\ pc = "loop"
    /\ idx > Len(args.watchlist)
    /\ pc' = "idle"
    /\ output' = IF all_data = <<>> THEN [kind |-> "no_data", items |-> <<>>]
                 ELSE IF args.view_mode = "qvm" THEN create_qvm_ranking_view(all_data)
                 ELSE create_enhanced_cards_view(all_data)
    /\ UNCHANGED <<callback, prices, indicators>>
    /\ UNCHANGED <<market, watchlist, args, idx, all_data>>

Next ==
    \/ \E n_clicks \in 0..1, vol_mult \in VolMults, atr_thresh \in AtrThreshs,
          view_mode \in ViewModes : StartScan(n_clicks, vol_mult, atr_thresh, view_mode)
    \/ ScanTicker
    \/ FinishScan

Spec == Init /\ [][Next]_vars

(***************************************************************************)
(* The indicator functions on their own: calculate_rsi and calculate_atr   *)
(* called with a window on a short price series.                           *)
(***************************************************************************)
MaxRows == 4
Windows == {2, 3}

Bars ==
    { [close |-> c, high |-> c + u, low |-> c - u, volume |-> 0] :
          c \in {10, 11, 12}, u \in {0, 1} }

PriceSeries == UNION { [1..n -> Bars] : n \in 0..MaxRows }

InitIndicators ==
    /\ InitScan
    /\ market = [t \in Tickers |-> Quiet]
    /\ watchlist = <<>>
    /\ callback = "none"
    /\ prices \in PriceSeries
    /\ indicators = NoIndicators

\* calculate_rsi(prices['Close'], window): the returned series.
CallRsi(window) ==
    /\ indicators' = [fn |-> "rsi", window |-> window,
                      result |-> [i \in 1..Len(prices) |->
                                     calculate_rsi(Close(prices), window, i)]]
    /\ UNCHANGED <<market, watchlist, pc, args, idx, all_data, output, callback, prices>>

\* calculate_atr(prices['High'], prices['Low'], prices['Close'], window): the
\* returned series.
CallAtr(window) ==
    /\ indicators' = [fn |-> "atr", window |-> window,
                      result |-> [i \in 1..Len(prices) |->
                                     calculate_atr(High(prices), Low(prices),
                                                   Close(prices), window, i)]]
    /\ UNCHANGED <<market, watchlist, pc, args, idx, all_data, output, callback, prices>>

NextIndicators ==
    \/ \E window \in Windows : CallRsi(window)
    \/ \E window \in Windows : CallAtr(window)

SpecIndicators == InitIndicators /\ [][NextIndicators]_vars

(***************************************************************************)
(* The watchlist callback.  Here a ticker is the sequence of its           *)
(* characters, so that upper(), strip() and split(".") act on it.          *)
(***************************************************************************)
MaxStore == 3

\* DEFAULT_WATCHLIST, cut down to two tickers.
DEFAULT_WATCHLIST == << <<"A">>, <<"M", "S", "F", "T">> >>

\* What the user may have typed into ticker-input; <<>> is an empty input.
TickerInputs ==
    { <<>>, <<"a">>, <<"A">>, <<" ", "a", " ">>, <<" ", " ">>, <<"b", ".", "b">>,
      <<"B">>, <<"b", " ">>, <<"a", " ", "b">>, <<".">>, <<"a", "b">> }

UpperChar(c) == IF c = "a" THEN "A" ELSE IF c = "b" THEN "B" ELSE c

\* str.upper()
upper(str) == [k \in 1..Len(str) |-> UpperChar(str[k])]

RECURSIVE lstrip(_)
lstrip(str) ==
    IF str = <<>> THEN str
    ELSE IF str[1] = " " THEN lstrip(Tail(str)) ELSE str

RECURSIVE rstrip(_)
rstrip(str) ==
    IF str = <<>> THEN str
    ELSE IF str[Len(str)] = " " THEN rstrip(SubSeq(str, 1, Len(str) - 1)) ELSE str

\* str.strip()
strip(str) == rstrip(lstrip(str))

\* The prop_id Dash reports for a click, as a sequence of pieces of text: the
\* component id, ".", the property.  The id of a remove control is the JSON
\* text of {"index": ticker, "type": "remove-ticker"}.
AddPropId == <<"add-ticker-btn", ".", "n_clicks">>
RemovePropId(ticker) ==
    <<"{index:">> \o ticker \o <<",type:", "remove-ticker", "}", ".", "n_clicks">>

\* "text" in trigger_id
Contains(trigger_id, text) == \E k \in 1..Len(trigger_id) : trigger_id[k] = text

\* trigger_id.split(".")[0]: everything before the first "."
SplitFirst(trigger_id) ==
    LET dots == {k \in 1..Len(trigger_id) : trigger_id[k] = "."}
    IN  IF dots = {} THEN trigger_id
        ELSE SubSeq(trigger_id, 1, (CHOOSE k \in dots : \A j \in dots : k <= j) - 1)

\* json.loads(text): <<>> when text is not a complete JSON object
\* (json.JSONDecodeError), else <<the dict>>.
json_loads(text) ==
    LET n == Len(text)
    IN  IF /\ n >= 4
           /\ text[1] = "{index:"
           /\ text[n-2] = ",type:"
           /\ text[n-1] = "remove-ticker"
           /\ text[n] = "}"
        THEN <<[index |-> SubSeq(text, 2, n - 3), type |-> "remove-ticker"]>>
        ELSE <<>>

\* ticker in watchlist
InList(wl, ticker) == \E k \in 1..Len(wl) : wl[k] = ticker

\* watchlist.remove(ticker): drops the first occurrence.
ListRemove(wl, ticker) ==
    LET first == CHOOSE k \in 1..Len(wl) : wl[k] = ticker /\ \A j \in 1..(k-1) : wl[j] # ticker
    IN  SubSeq(wl, 1, first - 1) \o SubSeq(wl, first + 1, Len(wl))

\* manage_watchlist appending without the "ticker not in watchlist" test.
manage_watchlist_append(triggered, ticker_input, wl) ==
    IF triggered = <<>> THEN [raised |-> FALSE, watchlist |-> wl]
    ELSE LET trigger_id == triggered[1]
         IN  IF Contains(trigger_id, "add-ticker-btn") /\ ticker_input # <<>>
             THEN LET ticker == strip(upper(ticker_input))
                  IN  [raised |-> FALSE,
                       watchlist |-> IF ticker # <<>>
                                     THEN Append(wl, ticker) ELSE wl]
             ELSE IF Contains(trigger_id, "remove-ticker")
             THEN LET button_info == json_loads(SplitFirst(trigger_id))
                  IN  IF button_info = <<>> THEN [raised |-> TRUE, watchlist |-> wl]
                      ELSE LET ticker_to_remove == button_info[1].index
                           IN  [raised |-> FALSE,
                                watchlist |-> IF InList(wl, ticker_to_remove)
                                              THEN ListRemove(wl, ticker_to_remove)
                                              ELSE wl]
             ELSE [raised |-> FALSE, watchlist |-> wl]

\* manage_watchlist(add_clicks, remove_clicks, ticker_input, watchlist) with
\* ctx.triggered = triggered: whether it raised, and the watchlist it returns.
manage_watchlist(triggered, ticker_input, wl) ==
    IF triggered = <<>> THEN [raised |-> FALSE, watchlist |-> wl]
    ELSE LET trigger_id == triggered[1]
         IN  IF Contains(trigger_id, "add-ticker-btn") /\ ticker_input # <<>>
             THEN LET ticker == strip(upper(ticker_input))
                  IN  [raised |-> FALSE,
                       watchlist |-> IF ticker # <<>> /\ ~InList(wl, ticker)
                                     THEN Append(wl, ticker) ELSE wl]
             ELSE IF Contains(trigger_id, "remove-ticker")
             THEN LET button_info == json_loads(SplitFirst(trigger_id))
                  IN  IF button_info = <<>> THEN [raised |-> TRUE, watchlist |-> wl]
                      ELSE LET ticker_to_remove == button_info[1].index
                           IN  [raised |-> FALSE,
                                watchlist |-> IF InList(wl, ticker_to_remove)
                                              THEN ListRemove(wl, ticker_to_remove)
                                              ELSE wl]
             ELSE [raised |-> FALSE, watchlist |-> wl]

InitWatchlist ==
    /\ InitScan
    /\ market = [t \in Tickers |-> Quiet]
    /\ watchlist = DEFAULT_WATCHLIST
    /\ callback = "none"
    /\ prices = <<>>
    /\ indicators = NoIndicators

\* One call of manage_watchlist: a raised exception leaves the store as it was.
Callback(triggered, ticker_input) ==
    LET r == manage_watchlist(triggered, ticker_input, watchlist)
    IN  /\ Len(r.watchlist) <= MaxStore
        /\ callback' = IF r.raised THEN "raised" ELSE "returned"
        /\ watchlist' = IF r.raised THEN watchlist ELSE r.watchlist
        /\ UNCHANGED <<market, pc, args, idx, all_data, output, prices, indicators>>

\* The call Dash makes with nothing triggered.
NoTrigger == \E ticker_input \in TickerInputs : Callback(<<>>, ticker_input)

\* A click on add-ticker-btn with ticker_input typed in.
AddClick(ticker_input) == Callback(<<AddPropId>>, ticker_input)

\* A click on the remove control of the i-th badge.
RemoveClick(i) ==
    \E ticker_input \in TickerInputs :
        Callback(<<RemovePropId(watchlist[i])>>, ticker_input)

NextWatchlist ==
    \/ NoTrigger
    \/ \E ticker_input \in TickerInputs : AddClick(ticker_input)
    \/ \E i \in 1..Len(watchlist) : RemoveClick(i)

SpecWatchlist == InitWatchlist /\ [][NextWatchlist]_vars

(***************************************************************************)
(* Properties                                                              *)
(***************************************************************************)
\* The snapshot fetch_enhanced_stock_data returns for ticker t (<<>>: None).
SnapshotOf(t) == fetch_enhanced_stock_data(t, Provider(market[t]))

\* The tickers run_enhanced_scan has finished processing, in order.
Processed == IF idx >= 2 THEN SubSeq(args.watchlist, 1, idx - 1) ELSE <<>>

\* The last scan ran to its end and returned a view of all_data.
ScanReturned == pc = "idle" /\ output.kind \in {"no_data", "cards", "ranking"}

\* C1: a failure while processing one ticker never aborts the scan: no scan
\* ends with an error instead of a result.
C1_ScanNeverAborts == output.kind # "error"

\* C2: a ticker whose price series has fewer than 200 bars yields no snapshot
\* and is absent from the list the scan builds and from the view it returns.
C2_ShortSeriesNoSnapshot ==
    /\ \A i \in 1..Len(all_data) : market[all_data[i].data.ticker].h.n >= 200
    /\ \A i \in 1..Len(output.items) : market[output.items[i].data.ticker].h.n >= 200
    /\ \A i \in 1..Len(Processed) :
          market[Processed[i]].h.n < 200 => SnapshotOf(Processed[i]) = <<>>

\* A scan has processed a ticker whose provider answered with fewer than 200
\* bars, and has returned.
C2_Witness ==
    /\ ScanReturned
    /\ \E i \in 1..Len(Processed) :
          /\ market[Processed[i]].kind = "ok"
          /\ market[Processed[i]].h.n < 200

\* Whether the six indicators are all defined at the last bar of history h.
LatestBarDefined == [h \in AllHistories |-> RowValid(History(h), h.n)]

\* C3: a snapshot exists only if all six indicators are defined at the latest
\* bar of the series, and its price and volume are those of the latest bar.
C3_SnapshotIsLatestBar ==
    \A i \in 1..Len(all_data) :
        LET h == market[all_data[i].data.ticker].h
        IN  /\ LatestBarDefined[h]
            /\ all_data[i].data.price = I(History(h)[h.n].close)
            /\ all_data[i].data.volume = I(History(h)[h.n].volume)

\* C4: a ticker without any fundamental attribute scores quality 50, value 50
\* and qvm (50 + 50 + momentum) / 3.
C4_NoFundamentalsNeutral ==
    \A i \in 1..Len(all_data) :
        LET d == all_data[i].data
        IN  market[d.ticker].f = NoInfo =>
              /\ d.quality_score = I(50)
              /\ d.value_score = I(50)
              /\ d.qvm_score = PyRound1(RDiv(RAdd(I(100), momentum_final(d)), I(3)))

InRange(x) == RLe(I(0), x) /\ RLe(x, I(100))

\* C5: the four scores of every snapshot lie within [0, 100].
C5_ScoresInRange ==
    \A i \in 1..Len(all_data) :
        /\ InRange(all_data[i].data.quality_score)
        /\ InRange(all_data[i].data.value_score)
        /\ InRange(all_data[i].data.momentum_score)
        /\ InRange(all_data[i].data.qvm_score)

RECURSIVE SumOfScores(_)
SumOfScores(S) ==
    IF S = {} THEN I(0)
    ELSE LET c == CHOOSE x \in S : TRUE
         IN  RAdd(c.score, SumOfScores(S \ {c}))

\* The mean of the scores of a set of named contributors, 50 for the empty set.
MeanOfPresent(S) ==
    IF S = {} THEN I(50) ELSE RDiv(SumOfScores(S), I(Cardinality(S)))

Part(name, present, score) ==
    IF present THEN {[name |-> name, score |-> score]} ELSE {}

QualityParts(d) ==
    Part("roe", ~IsNone(d.roe), Clamp(RDiv(RMul(d.roe, I(100)), I(30))))
    \cup Part("operating_margin", ~IsNone(d.operating_margin),
              Clamp(RDiv(RMul(d.operating_margin, I(100)), I(30))))
    \cup Part("revenue_growth", ~IsNone(d.revenue_growth),
              Clamp(RDiv(RMul(d.revenue_growth, I(100)), I(20))))

ValueParts(d) ==
    Part("pe_ratio", ~IsNone(d.pe_ratio) /\ RGt(d.pe_ratio, I(0)),
         Clamp(RDiv(I(1000), d.pe_ratio)))
    \cup Part("pb_ratio", ~IsNone(d.pb_ratio) /\ RGt(d.pb_ratio, I(0)),
              Clamp(RDiv(I(150), d.pb_ratio)))
    \cup Part("dividend_yield", ~IsNone(d.dividend_yield),
              PyMin(I(100), RMul(I(20), d.dividend_yield)))

\* C6: the quality and the value score of a snapshot are the mean of the
\* present contributors only, and 50 when no contributor is present.
C6_MeanOfPresent ==
    \A i \in 1..Len(all_data) :
        LET d == all_data[i].data
        IN  /\ d.quality_score = PyRound1(MeanOfPresent(QualityParts(d)))
            /\ d.value_score = PyRound1(MeanOfPresent(ValueParts(d)))

\* One scan holds a snapshot without quality contributors (score 50) and a
\* snapshot with some but not all contributors of both scores.
C6_Witness ==
    /\ ScanReturned
    /\ \E i, j \in 1..Len(all_data) :
          /\ QualityParts(all_data[i].data) = {}
          /\ all_data[i].data.quality_score = I(50)
          /\ Cardinality(QualityParts(all_data[j].data)) \in 1..2
          /\ Cardinality(ValueParts(all_data[j].data)) \in 1..2

\* How often x occurs in the sequence s.
Count(s, x) == Cardinality({i \in 1..Len(s) : s[i] = x})

IsPermutation(s, t) ==
    /\ Len(s) = Len(t)
    /\ \A i \in 1..Len(s) : Count(s, s[i]) = Count(t, s[i])

\* C7: the ranking view lists the results of the scan in non-increasing order
\* of qvm_score and is a permutation of them.
C7_RankingSorted ==
    (pc = "idle" /\ output.kind = "ranking") =>
        /\ \A k \in 1..(Len(output.items) - 1) :
              RLe(output.items[k+1].data.qvm_score, output.items[k].data.qvm_score)
        /\ IsPermutation(output.items, all_data)

\* A ranking of three results with three different scores whose order differs
\* from the order of the scan's list.
C7_Witness ==
    /\ pc = "idle" /\ output.kind = "ranking"
    /\ Len(output.items) = 3
    /\ RGt(output.items[1].data.qvm_score, output.items[2].data.qvm_score)
    /\ RGt(output.items[2].data.qvm_score, output.items[3].data.qvm_score)
    /\ output.items[1] = all_data[3]
    /\ output.items[2] = all_data[1]

\* The tickers in alphabetical order.
Alphabetical == <<"AAPL", "MSFT", "TSLA">>
AlphaRank(t) == CHOOSE i \in 1..Len(Alphabetical) : Alphabetical[i] = t

\* C8: results of equal qvm_score are ranked in alphabetical order of their
\* tickers.
C8_TiesAlphabetical ==
    (pc = "idle" /\ output.kind = "ranking") =>
        \A k \in 1..(Len(output.items) - 1) :
            output.items[k].data.qvm_score = output.items[k+1].data.qvm_score =>
                AlphaRank(output.items[k].data.ticker)
                    < AlphaRank(output.items[k+1].data.ticker)

HasSnapshot(t) == SnapshotOf(t) # <<>>

\* C9: the list the scan builds holds one entry per processed ticker whose
\* fetch produced a snapshot, in watchlist order, none for the others, and
\* the snapshot, criteria and scores of an entry are those of its own ticker.
C9_ResultSequence ==
    /\ [i \in 1..Len(all_data) |-> all_data[i].data.ticker]
          = SelectSeq(Processed, HasSnapshot)
    /\ \A i \in 1..Len(all_data) :
          LET snap == SnapshotOf(all_data[i].data.ticker)[1]
          IN  /\ all_data[i].data = snap @@ calculate_qvm_scores(snap)
              /\ all_data[i].checks
                    = check_swing_criteria(snap, args.vol_mult,
                                           RDiv(args.atr_thresh, I(100)))

\* A scan of three tickers returned two entries with different snapshots,
\* the ticker without snapshot being the first or the second of the watchlist.
C9_Witness ==
    /\ ScanReturned
    /\ Len(args.watchlist) = 3
    /\ Len(all_data) = 2
    /\ HasSnapshot(args.watchlist[3])
    /\ SnapshotOf(all_data[1].data.ticker)[1].rsi # SnapshotOf(all_data[2].data.ticker)[1].rsi

C11_TrendAsDescribed ==
    \A i \in 1..Len(all_data) :
        all_data[i].checks.trend =>
            /\ RGt(all_data[i].data.price, all_data[i].data.sma50)
            /\ RGt(all_data[i].data.sma50, all_data[i].data.sma200)

RECURSIVE VolumeSum(_, _, _)
\* The sum of the volumes of the k bars of df that end at bar `last`.
VolumeSum(df, last, k) ==
    IF k = 0 THEN 0 ELSE df[last].volume + VolumeSum(df, last - 1, k - 1)

\* For every history, the row of the bar its snapshot is taken from, 0 when
\* the history gives no snapshot.
SnapshotRow ==
    [h \in AllHistories |->
        LET valid == IF h.n >= MinBars THEN DfValid(History(h)) ELSE <<>>
        IN  IF valid = <<>> THEN 0 ELSE valid[Len(valid)]]

\* For every history with a snapshot: the volume of the bar the snapshot is
\* taken from and the arithmetic mean of the 20 volumes ending at that bar.
VolumeFacts ==
    [h \in AllHistories |->
        LET row == SnapshotRow[h]
        IN  IF row = 0 THEN [volume |-> I(0), mean20 |-> I(0)]
            ELSE [volume |-> I(History(h)[row].volume),
                  mean20 |-> Num(VolumeSum(History(h), row, 20), 20)]]

\* C12: the volume criterion is true exactly when the bar's volume exceeds
\* the arithmetic mean of the last 20 volumes times the volume multiplier.
C12_VolumeCriterion ==
    \A i \in 1..Len(all_data) :
        LET v == VolumeFacts[market[all_data[i].data.ticker].h]
        IN  all_data[i].checks.volume
              = (v.volume.n * args.vol_mult.d * v.mean20.d
                    > v.mean20.n * args.vol_mult.n)

\* C13: the volatility criterion is true exactly when atr / price is strictly
\* greater than the ATR threshold percent / 100.
C13_Volatility ==
    \A i \in 1..Len(all_data) :
        LET d == all_data[i].data
        IN  all_data[i].checks.volatility
              = (100 * d.atr.n * d.price.d * args.atr_thresh.d
                    > args.atr_thresh.n * d.price.n * d.atr.d)

\* A result whose atr / price equals the threshold fraction fails the
\* volatility criterion.
C13_Witness ==
    \E i \in 1..Len(all_data) :
        /\ RMul(all_data[i].data.atr, I(100))
              = RMul(all_data[i].data.price, args.atr_thresh)
        /\ ~all_data[i].checks.volatility

ValuePartsClamped(d) ==
    Part("pe_ratio", ~IsNone(d.pe_ratio) /\ RGt(d.pe_ratio, I(0)),
         Clamp(RDiv(I(1000), d.pe_ratio)))
    \cup Part("pb_ratio", ~IsNone(d.pb_ratio) /\ RGt(d.pb_ratio, I(0)),
              Clamp(RDiv(I(150), d.pb_ratio)))
    \cup Part("dividend_yield", ~IsNone(d.dividend_yield),
              Clamp(RMul(I(20), d.dividend_yield)))

\* C15: the value score is the mean over the present contributors of
\* clamp(20/PE*50), clamp(3/PB*50) and clamp(yield*20), each clamped to
\* [0, 100], a P/E or P/B <= 0 being left out; PE 10, PB 1.5, yield 2% give 80.
C15_ValueScore ==
    \A i \in 1..Len(all_data) :
        LET d == all_data[i].data
        IN  /\ d.value_score = PyRound1(MeanOfPresent(ValuePartsClamped(d)))
            /\ (d.pe_ratio = I(10) /\ d.pb_ratio = Num(3, 2) /\ d.dividend_yield = I(2))
                  => d.value_score = I(80)

\* C16: the quality score is the mean over the present contributors of
\* clamp(ROE/30*100), clamp(margin/30*100) and clamp(growth/20*100); with
\* ROE 30% alone it is 100.
C16_QualityScore ==
    \A i \in 1..Len(all_data) :
        LET d == all_data[i].data
        IN  /\ PyRound1(MeanOfPresent(QualityParts(d))) = d.quality_score
            /\ (d.roe = I(30) /\ IsNone(d.operating_margin) /\ IsNone(d.revenue_growth))
                  => d.quality_score = I(100)

\* A result with ROE 30% and no other quality contributor scores 100.
C16_Witness ==
    \E i \in 1..Len(all_data) :
        /\ all_data[i].data.roe = I(30)
        /\ IsNone(all_data[i].data.operating_margin)
        /\ IsNone(all_data[i].data.revenue_growth)
        /\ all_data[i].data.quality_score = I(100)

WPart(name, present, score, weight) ==
    IF present THEN {[name |-> name, score |-> score, weight |-> weight]} ELSE {}

\* The present terms of the momentum score with their weights.
MomentumParts(d) ==
    WPart("perf_1m", ~IsNone(d.perf_1m),
          Clamp(RAdd(I(50), RMul(I(2), d.perf_1m))), Num(1, 5))
    \cup WPart("perf_3m", ~IsNone(d.perf_3m),
               Clamp(RAdd(I(50), RDiv(RMul(I(3), d.perf_3m), I(2)))), Num(3, 10))
    \cup WPart("perf_6m", ~IsNone(d.perf_6m),
               Clamp(RAdd(I(50), d.perf_6m)), Num(1, 2))
    \cup WPart("rsi", TRUE,
               Clamp(RSub(I(100), RMul(I(2), RAbs(RSub(d.rsi, I(50)))))), Num(1, 5))

RECURSIVE WeightedSum(_)
WeightedSum(S) ==
    IF S = {} THEN I(0)
    ELSE LET c == CHOOSE x \in S : TRUE
         IN  RAdd(RMul(c.weight, c.score), WeightedSum(S \ {c}))

RECURSIVE WeightSum(_)
WeightSum(S) ==
    IF S = {} THEN I(0)
    ELSE LET c == CHOOSE x \in S : TRUE
         IN  RAdd(c.weight, WeightSum(S \ {c}))

WeightedMean(S) == RDiv(WeightedSum(S), WeightSum(S))

\* C17: the momentum score is the weighted sum of the present terms divided
\* by the sum of their weights; the RSI term is always present.
C17_MomentumScore ==
    \A i \in 1..Len(all_data) :
        LET d == all_data[i].data
        IN  /\ ~IsNone(d.rsi)
            /\ d.momentum_score = PyRound1(WeightedMean(MomentumParts(d)))

\* A result with the 1-month and 3-month terms present and the 6-month term
\* absent.
C17_Witness ==
    \E i \in 1..Len(all_data) :
        /\ ~IsNone(all_data[i].data.perf_1m)
        /\ ~IsNone(all_data[i].data.perf_3m)
        /\ IsNone(all_data[i].data.perf_6m)

\* The three sub-scores before rounding.
Unrounded(d) ==
    [ quality  |-> IF QualityParts(d) = {} THEN I(50)
                   ELSE MeanOfPresent(QualityParts(d)),
      value    |-> IF ValueParts(d) = {} THEN I(50)
                   ELSE MeanOfPresent(ValueParts(d)),
      momentum |-> WeightedMean(MomentumParts(d)) ]

\* C18: qvm_score is the mean of the three unrounded sub-scores rounded to one
\* decimal at the end, and every returned sub-score is its unrounded value
\* rounded to one decimal.
C18_CompositeFromUnrounded ==
    \A i \in 1..Len(all_data) :
        LET d == all_data[i].data
            u == Unrounded(d)
        IN  /\ d.qvm_score
                 = PyRound1(RDiv(RAdd(RAdd(u.quality, u.value), u.momentum), I(3)))
            /\ d.quality_score = PyRound1(u.quality)
            /\ d.value_score = PyRound1(u.value)
            /\ d.momentum_score = PyRound1(u.momentum)

\* A result whose composite differs from the rounded mean of its rounded
\* sub-scores.
C18_Witness ==
    \E i \in 1..Len(all_data) :
        LET d == all_data[i].data
        IN  d.qvm_score # PyRound1(RDiv(RAdd(RAdd(d.quality_score, d.value_score),
                                             d.momentum_score), I(3)))

\* The performance over the bars before the bar the snapshot is taken from:
\* present exactly when at least `bars` bars precede it.
PerfOverBars(h, bars) ==
    LET row == SnapshotRow[h]
        df  == History(h)
    IN  IF row - 1 >= bars
        THEN RMul(RSub(RDiv(I(df[row].close), I(df[row - bars].close)), I(1)), I(100))
        ELSE None

PerfFacts ==
    [h \in AllHistories |->
        IF SnapshotRow[h] = 0 THEN [perf_1m |-> None, perf_3m |-> None, perf_6m |-> None]
        ELSE [perf_1m |-> PerfOverBars(h, 22),
              perf_3m |-> PerfOverBars(h, 66),
              perf_6m |-> PerfOverBars(h, 132)]]

\* C19: perf_1m, perf_3m and perf_6m are (close / close 22, 66, 132 bars
\* before) - 1 as a percentage, each present exactly when the series has that
\* many bars before the snapshot's bar.
C19_Performance ==
    \A i \in 1..Len(all_data) :
        LET d == all_data[i].data
            f == PerfFacts[market[d.ticker].h]
        IN  /\ d.perf_1m = f.perf_1m
            /\ d.perf_3m = f.perf_3m
            /\ d.perf_6m = f.perf_6m

\* No ticker of the scan under way has a snapshot.
AllDropped == \A i \in 1..Len(args.watchlist) : ~HasSnapshot(args.watchlist[i])

\* C20 as stated: a scan without result entries, every ticker dropped or the
\* watchlist empty, returns 'No data available'.
C20_EmptyResultNoData ==
    [][ (\/ pc = "idle" /\ watchlist = <<>> /\ output' # output
         \/ pc = "loop" /\ pc' = "idle" /\ AllDropped)
        => output'.kind = "no_data" ]_vars

\* C20: a scan of a non-empty watchlist that drops every ticker returns
\* 'No data available'; with an empty watchlist the callback returns a blank
\* result.
C20_NoDataWhenAllDropped ==
    [][ /\ (pc = "loop" /\ pc' = "idle" /\ AllDropped) => output'.kind = "no_data"
        /\ (pc = "idle" /\ watchlist = <<>> /\ output' # output)
              => output'.kind = "blank" ]_vars

\* A scan of two or more tickers has returned 'No data available'.
C20_Witness ==
    /\ pc = "idle"
    /\ output.kind = "no_data"
    /\ Len(args.watchlist) >= 2
    /\ AllDropped

TechnicalFields == {"price", "sma50", "sma100", "sma200", "rsi", "atr",
                    "volume", "avg_volume"}
PerfFields == {"perf_1m", "perf_3m", "perf_6m"}

ScoreFields == {"quality_score", "value_score", "momentum_score", "qvm_score"}

RECURSIVE GainSum(_, _, _)
\* Sum of the gains close[k] - close[k-1] > 0 over the deltas lo..hi.
GainSum(close, lo, hi) ==
    IF lo > hi THEN 0
    ELSE (IF close[hi] > close[hi-1] THEN close[hi] - close[hi-1] ELSE 0)
         + GainSum(close, lo, hi - 1)

RECURSIVE LossSum(_, _, _)
\* Sum of the losses close[k-1] - close[k] > 0 over the deltas lo..hi.
LossSum(close, lo, hi) ==
    IF lo > hi THEN 0
    ELSE (IF close[hi] < close[hi-1] THEN close[hi-1] - close[hi] ELSE 0)
         + LossSum(close, lo, hi - 1)

\* RSI at row i from the w daily deltas ending there; row i has i - 1 deltas.
RsiFromDeltas(close, w, i) ==
    IF i - 1 < w THEN NaN
    ELSE LET avgGain == Num(GainSum(close, i - w + 1, i), w)
             avgLoss == Num(LossSum(close, i - w + 1, i), w)
         IN  IF avgLoss = I(0) THEN (IF RGt(avgGain, I(0)) THEN I(100) ELSE NaN)
             ELSE IF avgGain = avgLoss THEN I(50)
             ELSE RSub(I(100), RDiv(I(100), RAdd(I(1), RDiv(avgGain, avgLoss))))

\* C23: calculate_rsi with window w is 100 - 100/(1 + avgGain/avgLoss) over
\* the w trailing deltas, 100 when avgLoss = 0 < avgGain, 50 when
\* avgGain = avgLoss > 0, and undefined when both are 0 or when fewer than w
\* deltas exist.
C23_Rsi ==
    indicators.fn = "rsi" =>
        \A i \in 1..Len(prices) :
            indicators.result[i] = RsiFromDeltas(Close(prices), indicators.window, i)

RECURSIVE TrueRangeSum(_, _, _)
\* Sum over the days lo..hi, each with a previous close, of
\* max(high - low, |high - prevClose|, |low - prevClose|).
TrueRangeSum(df, lo, hi) ==
    IF lo > hi THEN 0
    ELSE Max2(df[hi].high - df[hi].low,
              Max2(Abs(df[hi].high - df[hi-1].close), Abs(df[hi].low - df[hi-1].close)))
         + TrueRangeSum(df, lo, hi - 1)

\* C24: calculate_atr with window w is the mean of the true ranges of w days
\* that each have a previous close; the first day has no true range, so ATR
\* is undefined until w such days are available.
C24_Atr ==
    indicators.fn = "atr" =>
        \A i \in 1..Len(prices) :
            indicators.result[i] =
                IF i - 1 < indicators.window THEN NaN
                ELSE Num(TrueRangeSum(prices, i - indicators.window + 1, i),
                         indicators.window)

NoDuplicates(wl) == \A j, k \in 1..Len(wl) : wl[j] = wl[k] => j = k

\* ticker is upper-cased and has no surrounding whitespace.
Normalised(ticker) ==
    /\ ticker # <<>>
    /\ ticker[1] # " "
    /\ ticker[Len(ticker)] # " "
    /\ \A k \in 1..Len(ticker) : ticker[k] \notin {"a", "b"}

\* ticker is what was typed, upper-cased, without the blanks around it.
FromInput(ticker_input, ticker) ==
    \E lo \in 1..Len(ticker_input) :
        /\ lo + Len(ticker) - 1 <= Len(ticker_input)
        /\ \A k \in 1..Len(ticker_input) :
              IF k < lo \/ k > lo + Len(ticker) - 1 THEN ticker_input[k] = " "
              ELSE UpperChar(ticker_input[k]) = ticker[k - lo + 1]

Members(wl) == {wl[k] : k \in 1..Len(wl)}

\* C25: after any sequence of add and remove actions the watchlist has no
\* duplicate and no empty ticker; a ticker added through the input is stored
\* upper-cased without surrounding whitespace; adding a ticker already present
\* leaves the watchlist unchanged; each action changes the membership of at
\* most the ticker it names.
C25_WatchlistKept ==
    /\ [](NoDuplicates(watchlist) /\ \A k \in 1..Len(watchlist) : watchlist[k] # <<>>)
    /\ [][ /\ NoTrigger => watchlist' = watchlist
           /\ \A ticker_input \in TickerInputs :
                 AddClick(ticker_input) =>
                    /\ \/ watchlist' = watchlist
                       \/ /\ Len(watchlist') = Len(watchlist) + 1
                          /\ SubSeq(watchlist', 1, Len(watchlist)) = watchlist
                          /\ Normalised(watchlist'[Len(watchlist')])
                          /\ FromInput(ticker_input, watchlist'[Len(watchlist')])
                    /\ (\E k \in 1..Len(watchlist) :
                           /\ Normalised(watchlist[k])
                           /\ FromInput(ticker_input, watchlist[k]))
                          => watchlist' = watchlist
           /\ \A i \in 1..Len(watchlist) :
                 RemoveClick(i) =>
                    /\ Members(watchlist') \subseteq Members(watchlist)
                    /\ Members(watchlist) \ Members(watchlist') \subseteq {watchlist[i]}
         ]_vars

\* The watchlist holds a ticker typed in lower case with blanks around it,
\* next to a ticker typed with a blank inside.
C25_Witness ==
    /\ callback = "returned"
    /\ InList(watchlist, <<"A", " ", "B">>)
    /\ InList(watchlist, <<"B">>)
    /\ Len(watchlist) = MaxStore

\* C26: for every ticker in the watchlist, tickers containing '.' included,
\* its remove control makes manage_watchlist return, without raising, the
\* watchlist without that ticker and with the others in their order.
C26_RemoveWorks ==
    [][ \A i \in 1..Len(watchlist) :
           RemoveClick(i) =>
              /\ callback' = "returned"
              /\ watchlist' = SubSeq(watchlist, 1, i - 1)
                                 \o SubSeq(watchlist, i + 1, Len(watchlist)) ]_vars

====
